---- MODULE Spec2Model ----
(***************************************************************************)
(* OAuth authorization-code login with PKCE of goose-cli                   *)
(* (crates/goose-cli/src/commands/auth.rs): the callback listener and its  *)
(* one-shot handoff, the orchestrator login(), login_manual_only(), the    *)
(* manual capture manual_oauth_input() and the token exchange.             *)
(*                                                                         *)
(* Strings are sequences of tokens: a token is a piece of text that the    *)
(* parsers of the code never split ("U" is the text https://host/cb).      *)
(***************************************************************************)
EXTENDS Integers, Sequences, FiniteSets, TLC

\* ---------------------------------------------------------------- bounds
\* number of requests to /oauth_callback that one attempt sees
NumCallbacks == 2
\* number of '&'-separated segments of a pasted line
MaxPairs == 2

\* ------------------------------------------------------------------ data
Handlers == 1 .. NumCallbacks
StateTokens == {<<"S1">>, <<"S2">>}
CallbackCodes == {<<"ABC">>, <<"XYZ">>}
\* the state that random_url_safe(24) returns: one of the tokens, the other
\* ones are the states that differ from it
GeneratedStates == {<<"S1">>}
NoVal == <<"none">>

SuccessPage == "Authentication succeeded. You can close this window."
InvalidPage == "Invalid state parameter."

VARIABLES
    pc,             \* position of the orchestrator (login / login_manual_only)
    fn,             \* the function that runs: "none", "login", "login_manual_only"
    bypassed,       \* ensure_authenticated returned through GOOSE_AUTH_BYPASS
    stdinTerminal,  \* io::stdin().is_terminal() of the process
    outcome,        \* "running", "Ok" or the error the attempt returned
    state,          \* the state generated at line 72 / 259
    txSlot,         \* tx_arc: "absent" (not built), "some" (holds the Sender), "none" (taken)
    chan,           \* values sent successfully on the oneshot channel, in order
    rxAlive,        \* the Receiver rx exists and is not dropped
    mutex,          \* holder of the tokio Mutex around the Sender: 0 = free
    server,         \* "none", "bound", "running", "aborting", "stopped", "failed"
    handlers,       \* h -> the invocation of the /oauth_callback handler
    urlShown,       \* the authorization URL has been printed
    browserTried,   \* webbrowser::open has been called
    result,         \* outcome of timeout(60s, rx): "pending", "value", "closed", "timeout"
    code,           \* the code the orchestrator holds
    returned_state, \* the state the orchestrator holds with it
    manualCalls,    \* invocations of manual_oauth_input
    stdinReads,     \* lines read from stdin by manual_oauth_input
    input,          \* the line read by manual_oauth_input
    manual,         \* what manual_oauth_input returned
    requests,       \* token requests sent (curl runs)
    response,       \* what curl returned
    out,            \* what the attempt has written or sent: where, what, which values
    peer            \* another login() of the same process: its position

hvars == <<txSlot, chan, mutex, handlers>>
mvars == <<manualCalls, stdinReads, input, manual>>
xvars == <<requests, response>>
ovars == <<pc, fn, bypassed, stdinTerminal, outcome, state, urlShown, browserTried, result, code,
           returned_state>>
vars == <<pc, fn, bypassed, stdinTerminal, outcome, state, txSlot, chan, rxAlive, mutex, server,
          handlers, urlShown, browserTried, result, code, returned_state,
          manualCalls, stdinReads, input, manual, requests, response, out, peer>>

IdleHandler == [pc |-> "idle", code |-> NoVal, st |-> NoVal, took |-> FALSE, page |-> "none"]
NoManual == [ok |-> FALSE, err |-> "none", code |-> NoVal, st |-> NoVal]
NoResponse == [curl |-> "none", http |-> "none", body |-> "none"]

Init ==
    /\ pc = "entry"
    /\ fn = "none"
    /\ bypassed = FALSE
    /\ stdinTerminal \in BOOLEAN
    /\ outcome = "running"
    /\ state = NoVal
    /\ txSlot = "absent"
    /\ chan = <<>>
    /\ rxAlive = FALSE
    /\ mutex = 0
    /\ server = "none"
    /\ handlers = [h \in Handlers |-> IdleHandler]
    /\ urlShown = FALSE
    /\ browserTried = FALSE
    /\ result = "pending"
    /\ code = NoVal
    /\ returned_state = NoVal
    /\ manualCalls = 0
    /\ stdinReads = 0
    /\ input = NoVal
    /\ manual = NoManual
    /\ requests = 0
    /\ response = NoResponse
    /\ out = {}
    /\ peer = "idle"

\* the attempt returns Err(e)
Fail(e) == /\ pc' = "done"
           /\ outcome' = e

\* ============================================================ the handler
\* mutant: the state of the callback is not compared
StateMatches_Any(s, expected) == TRUE

\* q.state == expected_state (line 108)
StateMatches(s, expected) == s = expected

\* The listener accepts a connection and a request to /oauth_callback is
\* extracted into q = CallbackQuery{code, state}; line 108 compares q.state
\* and, for a mismatch, lines 113-116 answer.  axum::serve runs every
\* connection as a task of its own, so the handler's later steps do not
\* depend on the listener task.
HandlerRequest(h) ==
    /\ server = "running"
    /\ handlers[h].pc = "idle"
    /\ \E c \in CallbackCodes, s \in StateTokens :
          handlers' = [handlers EXCEPT ![h] =
              IF StateMatches(s, state)
              THEN [@ EXCEPT !.pc = "lock", !.code = c, !.st = s]
              ELSE [@ EXCEPT !.pc = "done", !.code = c, !.st = s, !.page = InvalidPage]]
    /\ UNCHANGED <<ovars, txSlot, chan, rxAlive, mutex, server, mvars, xvars, out, peer>>

\* tx.lock().await (line 109)
HandlerLock(h) ==
    /\ handlers[h].pc = "lock"
    /\ mutex = 0
    /\ mutex' = h
    /\ handlers' = [handlers EXCEPT ![h] = [@ EXCEPT !.pc = "take"]]
    /\ UNCHANGED <<ovars, txSlot, chan, rxAlive, server, mvars, xvars, out, peer>>

\* .take() (line 109): Some(sender) leaves None behind
HandlerTake(h) ==
    /\ handlers[h].pc = "take"
    /\ mutex = h
    /\ IF txSlot = "some"
       THEN /\ txSlot' = "none"
            /\ handlers' = [handlers EXCEPT ![h] = [@ EXCEPT !.pc = "send", !.took = TRUE]]
       ELSE /\ txSlot' = txSlot
            /\ handlers' = [handlers EXCEPT ![h] = [@ EXCEPT !.pc = "unlock"]]
    /\ UNCHANGED <<ovars, chan, rxAlive, mutex, server, mvars, xvars, out, peer>>

\* let _ = sender.send((code, state)) (line 110): Err when rx is dropped
HandlerSend(h) ==
    /\ handlers[h].pc = "send"
    /\ chan' = IF rxAlive THEN Append(chan, <<handlers[h].code, handlers[h].st>>) ELSE chan
    /\ handlers' = [handlers EXCEPT ![h] = [@ EXCEPT !.pc = "unlock"]]
    /\ UNCHANGED <<ovars, txSlot, rxAlive, mutex, server, mvars, xvars, out, peer>>

\* mutant: the success page is for the callback that took the Sender
HandlerRespond_OnlyWhenTaken(h) ==
    /\ handlers[h].pc = "unlock"
    /\ mutex = h
    /\ mutex' = 0
    /\ handlers' = [handlers EXCEPT ![h] =
           [@ EXCEPT !.pc = "done", !.page = IF handlers[h].took THEN SuccessPage
                                                                  ELSE InvalidPage]]
    /\ UNCHANGED <<ovars, txSlot, chan, rxAlive, server, mvars, xvars, out, peer>>

\* the guard is dropped at the end of the if-let; lines 112, 116
HandlerRespond(h) ==
    /\ handlers[h].pc = "unlock"
    /\ mutex = h
    /\ mutex' = 0
    /\ handlers' = [handlers EXCEPT ![h] = [@ EXCEPT !.pc = "done", !.page = SuccessPage]]
    /\ UNCHANGED <<ovars, txSlot, chan, rxAlive, server, mvars, xvars, out, peer>>

HandlerInFlight(h) == handlers[h].pc \notin {"idle", "done"}

\* ======================================================= the listener task
\* axum::serve returns or the task dies (line 136 ignores its result): the
\* listener and the router are dropped
ServerFail ==
    /\ server = "running"
    /\ server' = "failed"
    /\ UNCHANGED <<ovars, hvars, rxAlive, mvars, xvars, out, peer>>

\* the runtime drops the aborted task: abort() only schedules the cancellation
ServerStopped ==
    /\ server = "aborting"
    /\ server' = "stopped"
    /\ UNCHANGED <<ovars, hvars, rxAlive, mvars, xvars, out, peer>>

SocketBound == server \in {"bound", "running", "aborting"}

\* ================================================== manual_oauth_input
\* str::trim (line 373): whitespace is removed at both ends
RECURSIVE TrimStart(_)
TrimStart(s) == IF s # <<>> /\ Head(s) = " " THEN TrimStart(Tail(s)) ELSE s

RECURSIVE TrimEnd(_)
TrimEnd(s) == IF s # <<>> /\ s[Len(s)] = " " THEN TrimEnd(SubSeq(s, 1, Len(s) - 1)) ELSE s

Trim(s) == TrimEnd(TrimStart(s))

\* str::contains
Contains(s, t) == \E i \in 1 .. Len(s) : s[i] = t

\* index of the first t in s, 0 when there is none
RECURSIVE IndexFrom(_, _, _)
IndexFrom(s, t, i) == IF i > Len(s) THEN 0 ELSE IF s[i] = t THEN i ELSE IndexFrom(s, t, i + 1)

IndexOf(s, t) == IndexFrom(s, t, 1)

\* Url::parse (line 375) succeeds on an absolute URL: the text starts with a
\* scheme and an authority, here the token "U"; anything else is a relative
\* reference without a base, an error
UrlParseOk(s) == s # <<>> /\ Head(s) = "U"

\* the query of the parsed URL: what follows the first '?'
UrlQuery(s) == IF IndexOf(s, "?") = 0 THEN <<>> ELSE SubSeq(s, IndexOf(s, "?") + 1, Len(s))

\* form_urlencoded decoding of a name or a value: '+' is a space
RECURSIVE FormDecode(_)
FormDecode(s) ==
    IF s = <<>> THEN <<>>
    ELSE <<IF Head(s) = "+" THEN " " ELSE Head(s)>> \o FormDecode(Tail(s))

\* one '&'-separated segment: name and value are split at the first '='
FormPair(seg) ==
    IF IndexOf(seg, "=") = 0
    THEN <<FormDecode(seg), <<>>>>
    ELSE <<FormDecode(SubSeq(seg, 1, IndexOf(seg, "=") - 1)),
           FormDecode(SubSeq(seg, IndexOf(seg, "=") + 1, Len(seg)))>>

\* form_urlencoded::parse (lines 378, 397): the segments between '&', empty
\* segments skipped
RECURSIVE FormParse(_)
FormParse(s) ==
    IF s = <<>> THEN <<>>
    ELSE LET i == IndexOf(s, "&")
             seg == IF i = 0 THEN s ELSE SubSeq(s, 1, i - 1)
             rest == IF i = 0 THEN <<>> ELSE SubSeq(s, i + 1, Len(s))
         IN  IF seg = <<>> THEN FormParse(rest) ELSE <<FormPair(seg)>> \o FormParse(rest)

\* the loops of lines 378-384 and 397-403: the last "code" and the last
\* "state" of the pairs; <<>> stands for None, <<v>> for Some(v)
RECURSIVE LastOf(_, _)
LastOf(pairs, key) ==
    IF pairs = <<>> THEN <<>>
    ELSE LET p == pairs[Len(pairs)]
         IN  IF p[1] = key THEN <<p[2]>> ELSE LastOf(SubSeq(pairs, 1, Len(pairs) - 1), key)

ManualOk(c, s) == [ok |-> TRUE, err |-> "none", code |-> c, st |-> s]
ManualErr(e) == [ok |-> FALSE, err |-> e, code |-> NoVal, st |-> NoVal]

\* mutant: the pasted state is returned unchecked
Extracted_NoStateCheck(pairs, expected_state, err) ==
    LET c == LastOf(pairs, <<"code">>)
        s == LastOf(pairs, <<"state">>)
    IN  ManualOk(c[1], IF s = <<>> THEN expected_state ELSE s[1])

\* lines 385-391 and 404-410: Some(code) with the state, or the expected
\* state when there is none
Extracted(pairs, expected_state, err) ==
    LET c == LastOf(pairs, <<"code">>)
        s == LastOf(pairs, <<"state">>)
        rs == IF s = <<>> THEN expected_state ELSE s[1]
    IN  IF rs # expected_state THEN ManualErr(err) ELSE ManualOk(c[1], rs)

HasCode(pairs) == LastOf(pairs, <<"code">>) # <<>>

\* lines 373-417, on the line that was read
ManualParse(line, expected_state) ==
    LET t == Trim(line)
    IN  IF UrlParseOk(t) /\ HasCode(FormParse(UrlQuery(t)))
        THEN Extracted(FormParse(UrlQuery(t)), expected_state, "State mismatch in pasted URL")
        ELSE IF Contains(t, "=") /\ Contains(t, "&") /\ HasCode(FormParse(t))
        THEN Extracted(FormParse(t), expected_state, "State mismatch in pasted parameters")
        ELSE IF t # <<>>
        THEN ManualOk(t, expected_state)
        ELSE ManualErr("No code provided")

\* ------------------------------------------------------ the pasted lines
Keys == {"code", "state", "x"}
Values == {"S1", "S2", "ABC", "+"}
\* a segment: empty, a name, name=, name=value
Segments == {<<>>} \cup {<<k>> : k \in Keys} \cup {<<k, "=">> : k \in Keys}
            \cup {<<k, "=", v>> : k \in Keys, v \in Values}

RECURSIVE JoinedUpTo(_)
JoinedUpTo(n) ==
    IF n = 0 THEN {<<>>}
    ELSE IF n = 1 THEN Segments
    ELSE JoinedUpTo(n - 1) \cup {q \o <<"&">> \o g : q \in JoinedUpTo(n - 1), g \in Segments}

Prefixes == {<<>>, <<"U">>, <<"U", "?">>}
Pads == {<<>>, <<" ">>}
\* every line the user can paste, within MaxPairs segments
AllLines == {a \o p \o q \o b : a \in Pads, p \in Prefixes, q \in JoinedUpTo(MaxPairs), b \in Pads}

\* the lines of the whole-flow specification
FlowLines == {
    <<" ">>,
    <<" ", "ABC", " ">>,
    <<"U", "?", "code", "=", "ABC", "&", "state", "=", "S1">>,
    <<"U", "?", "code", "=", "ABC", "&", "state", "=", "S2">>,
    <<"U", "?", "state", "=", "S2">>,
    <<"code", "=", "XYZ", "&", "state", "=", "S1">> }

\* ------------------------------------------------- the token responses
\* the body: text that is not JSON (it may still carry the tokens, as the
\* form-encoded answer access_token=..&refresh_token=.. does), JSON that is no
\* object, or a JSON object with or without the two fields
Bodies == [kind : {"non_json"}, access_token : {"absent", "string"},
           refresh_token : {"absent", "string"}]
          \cup {[kind |-> "non_object", access_token |-> "absent", refresh_token |-> "absent"]}
          \cup [kind : {"object"}, access_token : {"absent", "string", "non_string"},
                refresh_token : {"absent", "string"}]

\* ------------------------------------------------------ what is written
Wrote(to, what, has) == [to |-> to, what |-> what, has |-> has]

\* mutant: the URL carries the verifier too
AuthUrlParams_WithVerifier ==
    {"response_type", "client_id", "redirect_uri", "scope", "state", "code_challenge",
     "code_challenge_method", "code_verifier"}

\* lines 81-87 / 267-273: the parameters of the authorization URL
AuthUrlParams == {"response_type", "client_id", "redirect_uri", "scope", "state",
                  "code_challenge", "code_challenge_method"}

\* lines 160-167 / 288-295: the form of the token request (client_secret
\* when it is set)
TokenForm == {"client_id", "redirect_uri", "grant_type", "code", "code_verifier",
              "client_secret"}

\* the token values that a printed body shows
BodyValues(b) ==
    (IF b.access_token \in {"string", "non_string"} THEN {"access_token value"} ELSE {})
    \cup (IF b.refresh_token = "string" THEN {"refresh_token value"} ELSE {})

\* lines 207-215 / 333-341: the two fields of a JSON object are overwritten,
\* anything that is no object is left as it is
Redacted(b) ==
    IF b.kind = "object"
    THEN [b EXCEPT !.access_token = IF @ = "absent" THEN @ ELSE "<redacted>",
                   !.refresh_token = IF @ = "absent" THEN @ ELSE "<redacted>"]
    ELSE b

\* what Command::new("curl").output() gives: curl cannot be run, curl exits
\* non-zero, or curl exits 0 with the body of the response, whatever its
\* HTTP status (no --fail among the arguments)
Responses == {[curl |-> "spawn_error", http |-> "none", body |-> "none"],
              [curl |-> "exit_nonzero", http |-> "none", body |-> "none"]}
             \cup [curl : {"exit_0"}, http : {"2xx", "4xx"}, body : Bodies]

\* ========================================================== entry points
\* mutant: the bypass is noted and the flow runs all the same
EnsureAuthenticated_BypassRunsFlow ==
    /\ pc = "entry"
    /\ \E bypass \in BOOLEAN, choiceM \in BOOLEAN :
          /\ bypassed' = bypass
          /\ fn' = IF stdinTerminal /\ choiceM THEN "login_manual_only" ELSE "login"
    /\ pc' = "env"
    /\ UNCHANGED <<outcome, stdinTerminal, state, urlShown, browserTried, result, code,
                   returned_state, hvars, rxAlive, server, mvars, xvars, out, peer>>

\* ensure_authenticated (lines 35-60): bypass is GOOSE_AUTH_BYPASS == "1",
\* false when the variable is not set
EnsureAuthenticated ==
    /\ pc = "entry"
    /\ \E bypass \in BOOLEAN, choiceM \in BOOLEAN :
          IF bypass
          THEN /\ pc' = "done"
               /\ outcome' = "Ok"
               /\ bypassed' = TRUE
               /\ fn' = fn
          ELSE /\ pc' = "env"
               /\ fn' = IF stdinTerminal /\ choiceM THEN "login_manual_only" ELSE "login"
               /\ UNCHANGED <<outcome, bypassed>>
    /\ UNCHANGED <<stdinTerminal, state, urlShown, browserTried, result, code, returned_state,
                   hvars, rxAlive, server, mvars, xvars, out, peer>>

\* login_interactive (lines 231-247)
LoginInteractive ==
    /\ pc = "entry"
    /\ \E choice2 \in BOOLEAN :
          fn' = IF stdinTerminal /\ choice2 THEN "login_manual_only" ELSE "login"
    /\ pc' = "env"
    /\ UNCHANGED <<bypassed, stdinTerminal, outcome, state, urlShown, browserTried, result,
                   code, returned_state, hvars, rxAlive, server, mvars, xvars, out, peer>>

\* a caller invokes login() or login_manual_only() itself
CallDirect ==
    /\ pc = "entry"
    /\ fn' \in {"login", "login_manual_only"}
    /\ pc' = "env"
    /\ UNCHANGED <<bypassed, stdinTerminal, outcome, state, urlShown, browserTried, result,
                   code, returned_state, hvars, rxAlive, server, mvars, xvars, out, peer>>

\* ================================================ login, login_manual_only
\* lines 63-69 / 250-256: the required environment
ReadEnv ==
    /\ pc = "env"
    /\ \E clientId \in BOOLEAN, redirect \in BOOLEAN :
          IF clientId /\ redirect
          THEN pc' = "pkce" /\ outcome' = outcome
          ELSE Fail("required environment variable missing")
    /\ UNCHANGED <<fn, bypassed, stdinTerminal, state, urlShown, browserTried, result, code,
                   returned_state, hvars, rxAlive, server, mvars, xvars, out, peer>>

\* lines 72-88 / 259-274: the random state (the verifier and the URL carry
\* nothing the transitions depend on)
Pkce ==
    /\ pc = "pkce"
    /\ state' \in GeneratedStates
    /\ pc' = IF fn = "login" THEN "addr" ELSE "print"
    /\ UNCHANGED <<fn, bypassed, stdinTerminal, outcome, urlShown, browserTried, result, code,
                   returned_state, hvars, rxAlive, server, mvars, xvars, out, peer>>

\* lines 91-92: listen_addr.parse()?
ParseAddr ==
    /\ pc = "addr"
    /\ \E valid \in BOOLEAN :
          IF valid THEN pc' = "channel" /\ outcome' = outcome
          ELSE Fail("invalid socket address")
    /\ UNCHANGED <<fn, bypassed, stdinTerminal, state, urlShown, browserTried, result, code,
                   returned_state, hvars, rxAlive, server, mvars, xvars, out, peer>>

\* lines 95-120: the oneshot channel and the router that owns the Sender
MakeChannel ==
    /\ pc = "channel"
    /\ txSlot' = "some"
    /\ rxAlive' = TRUE
    /\ pc' = "bind"
    /\ UNCHANGED <<fn, bypassed, stdinTerminal, outcome, state, urlShown, browserTried, result,
                   code, returned_state, chan, mutex, handlers, server, mvars, xvars, out, peer>>

\* mutant: a failed bind falls back to manual_oauth_input
Bind_FallsBackToManual ==
    /\ pc = "bind"
    /\ \E ok \in BOOLEAN :
          IF ok
          THEN /\ server' = "bound"
               /\ pc' = "print"
               /\ UNCHANGED <<txSlot, rxAlive>>
          ELSE /\ pc' = "manual"
               /\ txSlot' = "absent"
               /\ rxAlive' = FALSE
               /\ server' = server
    /\ UNCHANGED <<fn, bypassed, stdinTerminal, outcome, state, urlShown, browserTried, result,
                   code, returned_state, chan, mutex, handlers, mvars, xvars, out, peer>>

\* line 123: TcpListener::bind(listen_addr).await?  The address comes from
\* the environment of the process (line 91), so it is the address of every
\* attempt of the process: the bind fails while another attempt listens
Bind ==
    /\ pc = "bind"
    /\ \E ok \in IF peer = "listening" THEN {FALSE} ELSE BOOLEAN :
          IF ok
          THEN /\ server' = "bound"
               /\ pc' = "print"
               /\ UNCHANGED <<outcome, txSlot, rxAlive>>
          ELSE /\ Fail("bind failed")
               /\ txSlot' = "absent"
               /\ rxAlive' = FALSE
               /\ server' = server
    /\ UNCHANGED <<fn, bypassed, stdinTerminal, state, urlShown, browserTried, result, code,
                   returned_state, chan, mutex, handlers, mvars, xvars, out, peer>>

\* line 125 / 276
PrintUrl ==
    /\ pc = "print"
    /\ urlShown' = TRUE
    /\ out' = out \cup {Wrote("stdout", "auth_url", AuthUrlParams)}
    /\ pc' = "browser"
    /\ UNCHANGED <<fn, bypassed, stdinTerminal, outcome, state, browserTried, result, code,
                   returned_state, hvars, rxAlive, server, mvars, xvars, peer>>

\* lines 127-132 / 277-280: the URL goes to the browser unless GOOSE_NO_BROWSER
\* is 1; login prints the error of a failed open, login_manual_only drops it
BrowserOutput(noBrowser, opened, f) ==
    IF noBrowser THEN {}
    ELSE {Wrote("browser", "auth_url", AuthUrlParams)}
         \cup (IF ~opened /\ f = "login" THEN {Wrote("stderr", "browser_error", {})} ELSE {})

\* mutant: the attempt returns the error of a browser that does not open
OpenBrowser_Fatal ==
    /\ pc = "browser"
    /\ \E noBrowser \in BOOLEAN, opened \in BOOLEAN :
          /\ browserTried' = ~noBrowser
          /\ out' = out \cup BrowserOutput(noBrowser, opened, fn)
          /\ IF ~noBrowser /\ ~opened
             THEN Fail("Could not open browser")
             ELSE /\ pc' = IF fn = "login" THEN "spawn" ELSE "manual"
                  /\ outcome' = outcome
    /\ UNCHANGED <<fn, bypassed, stdinTerminal, state, urlShown, result, code,
                   returned_state, hvars, rxAlive, server, mvars, xvars, peer>>

\* lines 127-132 / 277-280: a failure to open the browser is printed (login)
\* or dropped (login_manual_only)
OpenBrowser ==
    /\ pc = "browser"
    /\ \E noBrowser \in BOOLEAN, opened \in BOOLEAN :
          /\ browserTried' = ~noBrowser
          /\ out' = out \cup BrowserOutput(noBrowser, opened, fn)
    /\ pc' = IF fn = "login" THEN "spawn" ELSE "manual"
    /\ UNCHANGED <<fn, bypassed, stdinTerminal, outcome, state, urlShown, result, code,
                   returned_state, hvars, rxAlive, server, mvars, xvars, peer>>

\* lines 135-137: the listener task
SpawnServer ==
    /\ pc = "spawn"
    /\ server' = "running"
    /\ pc' = "await"
    /\ UNCHANGED <<fn, bypassed, stdinTerminal, outcome, state, urlShown, browserTried, result,
                   code, returned_state, hvars, rxAlive, mvars, xvars, out, peer>>

\* the Sender is dropped unsent: the router is gone with the listener task
\* and no handler holds a clone of it
SenderDropped ==
    /\ server = "failed"
    /\ txSlot = "some"
    /\ \A h \in Handlers : ~HandlerInFlight(h)

\* mutant: the wait has no deadline
Await_NoTimeout ==
    /\ pc = "await"
    /\ \/ /\ chan # <<>>
          /\ result' = "value"
       \/ /\ chan = <<>>
          /\ SenderDropped
          /\ result' = "closed"
    /\ pc' = "abort"
    /\ UNCHANGED <<fn, bypassed, stdinTerminal, outcome, state, urlShown, browserTried, code,
                   returned_state, hvars, rxAlive, server, mvars, xvars, out, peer>>

\* line 138: timeout(60s, rx).await; rx is polled before the deadline
Await ==
    /\ pc = "await"
    /\ \/ /\ chan # <<>>
          /\ result' = "value"
       \/ /\ chan = <<>>
          /\ SenderDropped
          /\ result' = "closed"
       \/ /\ chan = <<>>
          /\ result' = "timeout"
    /\ pc' = "abort"
    /\ UNCHANGED <<fn, bypassed, stdinTerminal, outcome, state, urlShown, browserTried, code,
                   returned_state, hvars, rxAlive, server, mvars, xvars, out, peer>>

\* line 141: server_task.abort(), not awaited; rx was consumed by line 138
AbortServer ==
    /\ pc = "abort"
    /\ server' = IF server = "running" THEN "aborting" ELSE server
    /\ rxAlive' = FALSE
    /\ pc' = "match"
    /\ UNCHANGED <<fn, bypassed, stdinTerminal, outcome, state, urlShown, browserTried, result,
                   code, returned_state, hvars, mvars, xvars, out, peer>>

\* mutant: manual_oauth_input is invoked whatever the wait returned
MatchResult_AlwaysManual ==
    /\ pc = "match"
    /\ pc' = "manual"
    /\ UNCHANGED <<fn, bypassed, stdinTerminal, outcome, state, urlShown, browserTried, result,
                   code, returned_state, hvars, rxAlive, server, mvars, xvars, out, peer>>

\* mutant: the pair of the listener goes to the exchange unvalidated
MatchResult_SkipValidation ==
    /\ pc = "match"
    /\ IF result = "value"
       THEN /\ code' = chan[1][1]
            /\ returned_state' = chan[1][2]
            /\ pc' = "exchange"
       ELSE /\ pc' = "manual"
            /\ UNCHANGED <<code, returned_state>>
    /\ UNCHANGED <<fn, bypassed, stdinTerminal, outcome, state, urlShown, browserTried, result,
                   hvars, rxAlive, server, mvars, xvars, out, peer>>

\* lines 143-153
MatchResult ==
    /\ pc = "match"
    /\ IF result = "value"
       THEN /\ code' = chan[1][1]
            /\ returned_state' = chan[1][2]
            /\ pc' = "validate"
       ELSE /\ pc' = "manual"
            /\ UNCHANGED <<code, returned_state>>
    /\ UNCHANGED <<fn, bypassed, stdinTerminal, outcome, state, urlShown, browserTried, result,
                   hvars, rxAlive, server, mvars, xvars, out, peer>>

\* mutant: stdin is read without the terminal check
ManualTty_NoCheck ==
    /\ pc = "manual"
    /\ manualCalls' = manualCalls + 1
    /\ pc' = "read"
    /\ UNCHANGED <<fn, bypassed, stdinTerminal, outcome, state, urlShown, browserTried, result,
                   code, returned_state, hvars, rxAlive, server, stdinReads, input, manual,
                   xvars, out, peer>>

\* lines 357-361: manual_oauth_input is entered (from line 147, 151 or 281)
\* and refuses to read when stdin is no terminal
ManualTty ==
    /\ pc = "manual"
    /\ manualCalls' = manualCalls + 1
    /\ IF stdinTerminal THEN pc' = "read" /\ outcome' = outcome
       ELSE Fail("No interactive input available")
    /\ UNCHANGED <<fn, bypassed, stdinTerminal, state, urlShown, browserTried, result, code,
                   returned_state, hvars, rxAlive, server, stdinReads, input, manual, xvars, out, peer>>

\* lines 363-418: one line is read and parsed; the caller's `?` returns the
\* error, or binds (code, returned_state)
ManualRead(lines) ==
    /\ pc = "read"
    /\ stdinReads' = stdinReads + 1
    /\ \/ /\ Fail("stdin read error")
          /\ UNCHANGED <<input, manual, code, returned_state>>
       \/ \E line \in lines :
            /\ input' = line
            /\ manual' = ManualParse(line, state)
            /\ IF manual'.ok
               THEN /\ code' = manual'.code
                    /\ returned_state' = manual'.st
                    /\ pc' = "validate"
                    /\ outcome' = outcome
               ELSE /\ Fail(manual'.err)
                    /\ UNCHANGED <<code, returned_state>>
    /\ UNCHANGED <<fn, bypassed, stdinTerminal, state, urlShown, browserTried, result,
                   hvars, rxAlive, server, manualCalls, xvars, out, peer>>

ManualReadFlow == ManualRead(FlowLines)

ManualReadAny == ManualRead(AllLines)

\* lines 154-156 / 282-284
Validate ==
    /\ pc = "validate"
    /\ IF returned_state # state
       THEN Fail("State mismatch in OAuth callback")
       ELSE pc' = "exchange" /\ outcome' = outcome
    /\ UNCHANGED <<fn, bypassed, stdinTerminal, state, urlShown, browserTried, result, code,
                   returned_state, hvars, rxAlive, server, mvars, xvars, out, peer>>

\* mutant: any access_token field counts, string or not, present or not
HasAccessToken_AnyObject(body) == body.kind = "object"

\* json.get("access_token").and_then(|v| v.as_str()) is Some (line 203 / 330)
HasAccessToken(body) == body.kind = "object" /\ body.access_token = "string"

\* lines 185-227 / 313-353: what the attempt returns on curl's output
ExchangeResult(r) ==
    IF r.curl = "spawn_error" THEN "Failed to run curl"
    ELSE IF r.curl = "exit_nonzero" THEN "Token exchange failed"
    ELSE IF r.body.kind = "non_json" THEN "Failed to parse token response as JSON"
    ELSE IF ~HasAccessToken(r.body) THEN "No access_token in token response"
    ELSE "Ok"

\* lines 196-198 and 205-220 / 324-326 and 332-346: the [oauth-debug] lines
Diagnostics(r) ==
    IF r.curl # "exit_0" THEN {}
    ELSE IF r.body.kind = "non_json"
    THEN {Wrote("stderr", "raw_response", BodyValues(r.body))}
    ELSE IF ~HasAccessToken(r.body)
    THEN {Wrote("stderr", "redacted_response", BodyValues(Redacted(r.body))),
          Wrote("stderr", "debug_config", {"redirect_uri", "scope"})}
    ELSE {}

\* mutant: the request is sent again when curl fails
Exchange_Retry ==
    /\ pc = "exchange"
    /\ requests' = requests + 1
    /\ \E r \in Responses :
          /\ response' = r
          /\ out' = out \cup {Wrote("curl", "token_request", TokenForm)} \cup Diagnostics(r)
          /\ IF r.curl = "exit_0"
             THEN pc' = "done" /\ outcome' = ExchangeResult(r)
             ELSE pc' = "exchange" /\ outcome' = outcome
    /\ UNCHANGED <<fn, bypassed, stdinTerminal, state, urlShown, browserTried, result, code,
                   returned_state, hvars, rxAlive, server, mvars, peer>>

\* lines 158-227 / 286-353: the form is posted with curl and the response
\* decides the attempt
Exchange ==
    /\ pc = "exchange"
    /\ requests' = requests + 1
    /\ \E r \in Responses :
          /\ response' = r
          /\ outcome' = ExchangeResult(r)
          /\ out' = out \cup {Wrote("curl", "token_request", TokenForm)} \cup Diagnostics(r)
    /\ pc' = "done"
    /\ UNCHANGED <<fn, bypassed, stdinTerminal, state, urlShown, browserTried, result, code,
                   returned_state, hvars, rxAlive, server, mvars, peer>>

\* ======================================================== specifications
Handler(h) ==
    \/ HandlerRequest(h)
    \/ HandlerLock(h)
    \/ HandlerTake(h)
    \/ HandlerSend(h)
    \/ HandlerRespond(h)

Next ==
    \/ EnsureAuthenticated
    \/ LoginInteractive
    \/ CallDirect
    \/ ReadEnv
    \/ Pkce
    \/ ParseAddr
    \/ MakeChannel
    \/ Bind
    \/ PrintUrl
    \/ OpenBrowser
    \/ SpawnServer
    \/ Await
    \/ AbortServer
    \/ MatchResult
    \/ ManualTty
    \/ ManualReadFlow
    \/ Validate
    \/ Exchange
    \/ ServerFail
    \/ ServerStopped
    \/ \E h \in Handlers : Handler(h)

Spec == Init /\ [][Next]_vars

\* ------------------------------------- another login() of the same process
\* line 123 of the other attempt: the same listen address
PeerBind ==
    /\ peer = "idle"
    /\ peer' = IF SocketBound THEN "failed" ELSE "listening"
    /\ UNCHANGED <<ovars, hvars, rxAlive, server, mvars, xvars, out>>

\* line 141 of the other attempt, and its listener task dropped
PeerRelease ==
    /\ peer = "listening"
    /\ peer' = "released"
    /\ UNCHANGED <<ovars, hvars, rxAlive, server, mvars, xvars, out>>

\* the steps of the future that runs the entry point, login or
\* login_manual_only
LoginStep ==
    \/ EnsureAuthenticated
    \/ LoginInteractive
    \/ CallDirect
    \/ ReadEnv
    \/ Pkce
    \/ ParseAddr
    \/ MakeChannel
    \/ Bind
    \/ PrintUrl
    \/ OpenBrowser
    \/ SpawnServer
    \/ Await
    \/ AbortServer
    \/ MatchResult
    \/ ManualTty
    \/ ManualReadFlow
    \/ Validate
    \/ Exchange

\* two attempts of one process, no callback arriving
NextTwo ==
    \/ LoginStep
    \/ ServerFail
    \/ ServerStopped
    \/ PeerBind
    \/ PeerRelease

SpecTwo == Init /\ [][NextTwo]_vars

\* the runtime keeps polling the future; the timer of line 138 fires,
\* read_line and curl return
SpecLive == Init /\ [][Next]_vars /\ WF_vars(LoginStep)

\* manual_oauth_input on every line of AllLines: login_manual_only at line 281
InitManual ==
    /\ pc = "manual"
    /\ fn = "login_manual_only"
    /\ bypassed = FALSE
    /\ stdinTerminal \in BOOLEAN
    /\ outcome = "running"
    /\ state \in StateTokens
    /\ txSlot = "absent"
    /\ chan = <<>>
    /\ rxAlive = FALSE
    /\ mutex = 0
    /\ server = "none"
    /\ handlers = [h \in Handlers |-> IdleHandler]
    /\ urlShown = TRUE
    /\ browserTried \in BOOLEAN
    /\ out = {Wrote("stdout", "auth_url", AuthUrlParams)}
             \cup BrowserOutput(~browserTried, TRUE, "login_manual_only")
    /\ peer = "idle"
    /\ result = "pending"
    /\ code = NoVal
    /\ returned_state = NoVal
    /\ manualCalls = 0
    /\ stdinReads = 0
    /\ input = NoVal
    /\ manual = NoManual
    /\ requests = 0
    /\ response = NoResponse

NextManual ==
    \/ ManualTty
    \/ ManualReadAny
    \/ Validate

SpecManual == InitManual /\ [][NextManual]_vars

\* ================================================================ claims
Pair(h) == <<handlers[h].code, handlers[h].st>>
Matching(h) == handlers[h].pc # "idle" /\ handlers[h].st = state
Mismatched(h) == handlers[h].pc # "idle" /\ handlers[h].st # state
\* the callback of h has gone through lines 109-110
PastSend(h) == handlers[h].pc \in {"unlock", "done"}
\* the orchestrator has left line 138-141 behind
LeftAwaiting == result # "pending" /\ pc \in {"manual", "read", "validate", "exchange", "done"}

\* C1: at most one CallbackResult is ever delivered through the handoff: the
\* first callback whose state equals the expected state (the one that takes
\* the Sender) delivers its (code, state), and no callback after it alters the
\* delivered result or delivers anything more.
C1_FirstMatchingDelivers ==
    /\ Len(chan) <= 1
    /\ \A h \in Handlers : handlers[h].took /\ PastSend(h) => chan = <<Pair(h)>>

\* the part of C1 that the code keeps: never two deliveries, and a delivery
\* is the pair of the callback that took the Sender
C1_AtMostOneDelivery ==
    /\ Len(chan) <= 1
    /\ Cardinality({h \in Handlers : handlers[h].took}) <= 1
    /\ chan # <<>> => \E h \in Handlers : handlers[h].took /\ chan = <<Pair(h)>>

\* C2: a callback whose state differs from the expected state delivers
\* nothing and does not take the Sender; while only such callbacks have
\* arrived the handoff stays open (Sender in place, nothing sent, receiver
\* alive for as long as login awaits it), login receives no value from it, and
\* login reaches the validation, the exchange or Ok only through
\* manual_oauth_input.
C2_MismatchNeverDelivers ==
    /\ \A h \in Handlers :
          Mismatched(h) => /\ ~handlers[h].took
                           /\ handlers[h].pc = "done"
                           /\ handlers[h].page = InvalidPage
                           /\ \A i \in 1 .. Len(chan) : chan[i] # Pair(h)
    /\ (fn = "login" /\ \A h \in Handlers : ~Matching(h)) =>
          /\ txSlot # "none"
          /\ chan = <<>>
          /\ result # "value"
          /\ (pc = "await" => txSlot = "some" /\ rxAlive)
          /\ (pc \in {"validate", "exchange"} \/ outcome = "Ok" \/ requests > 0 =>
                 manualCalls = 1 /\ manual.ok /\ result \in {"closed", "timeout"})

\* a mismatched callback has been answered and another callback, with the
\* expected state, has been delivered to login
C2_Witness ==
    \E h \in Handlers, g \in Handlers :
        /\ Mismatched(h) /\ handlers[h].pc = "done"
        /\ Matching(g) /\ handlers[g].took
        /\ chan = <<Pair(g)>>
        /\ result = "value"

\* C3: on every exit from the wait of line 138 the listener task is gone, the
\* socket is released and no connection serves a callback, before login goes
\* on to manual_oauth_input, the validation or its return.
C3_ListenerTornDown ==
    fn = "login" /\ LeftAwaiting =>
        /\ ~SocketBound
        /\ server \notin {"running", "aborting"}
        /\ \A h \in Handlers : ~HandlerInFlight(h)

\* C4: the wait of line 138 has three outcomes: a received value goes to the
\* validation with the pair of the listener and without manual_oauth_input; a
\* closed handoff and an elapsed timeout both go to manual_oauth_input and
\* are no failure; login holds the pair of the listener or the pair of
\* manual_oauth_input, never both.
C4_Step ==
    /\ (pc = "await" /\ pc' # pc =>
           /\ pc' = "abort"
           /\ result' \in {"value", "closed", "timeout"}
           /\ (result' = "value" <=> chan # <<>>))
    /\ (pc = "match" /\ pc' # pc =>
           /\ outcome' = "running"
           /\ (result = "value" =>
                  pc' = "validate" /\ manualCalls' = 0 /\ <<code', returned_state'>> = chan[1])
           /\ (result \in {"closed", "timeout"} => pc' = "manual"))
    /\ (fn = "login" /\ manualCalls' > manualCalls =>
           result \in {"closed", "timeout"} /\ manualCalls = 0)

C4_Sources ==
    fn = "login" /\ (pc \in {"validate", "exchange"} \/ requests > 0) =>
        \/ /\ result = "value"
           /\ manualCalls = 0 /\ stdinReads = 0 /\ manual = NoManual
           /\ <<code, returned_state>> = chan[1]
        \/ /\ result \in {"closed", "timeout"}
           /\ manualCalls = 1 /\ manual.ok
           /\ <<code, returned_state>> = <<manual.code, manual.st>>

C4_ThreeOutcomes == [][C4_Step]_vars /\ []C4_Sources

\* the wait timed out and the attempt succeeded through manual_oauth_input
C4_Witness == fn = "login" /\ result = "timeout" /\ manualCalls = 1 /\ outcome = "Ok"

\* C5: when the listener address does not parse or the bind fails, login
\* returns the error at once: manual_oauth_input is not invoked, the handoff
\* is not awaited and no token request is sent; in login none of these
\* happens without a bound listener.
C5_NoListener ==
    fn = "login" /\ server = "none" =>
        pc \notin {"await", "abort", "match", "manual", "read", "validate", "exchange"}

C5_BindFailureFatal ==
    /\ (outcome \in {"invalid socket address", "bind failed"} =>
           /\ pc = "done" /\ fn = "login" /\ server = "none"
           /\ manualCalls = 0 /\ stdinReads = 0
           /\ result = "pending"
           /\ requests = 0
           /\ ~urlShown)
    /\ (fn = "login" /\ server = "none" =>
           manualCalls = 0 /\ result = "pending" /\ requests = 0)
    /\ C5_NoListener

C5_Witness == outcome = "bind failed" /\ pc = "done"

\* C6: in login and login_manual_only a token request is sent only from the
\* position that follows the comparison of lines 154 / 282, entered only from
\* that comparison with returned_state equal to state; a differing
\* returned_state returns the state-mismatch error and sends nothing.
C6_Step ==
    /\ (requests' # requests =>
           pc = "exchange" /\ returned_state = state /\ state \in StateTokens)
    /\ (pc' = "exchange" /\ pc # "exchange" => pc = "validate" /\ returned_state = state)
    /\ (pc = "validate" /\ pc' # pc /\ returned_state # state =>
           pc' = "done" /\ outcome' = "State mismatch in OAuth callback" /\ requests' = requests)

C6_ExchangeAfterValidation == [][C6_Step]_vars

\* login sent a token request for the pair of the listener
C6_Witness == requests = 1 /\ returned_state = state /\ fn = "login" /\ result = "value"

\* C7: manual_oauth_input returns the whole trimmed line as the code only
\* when the line neither parses as an absolute URL nor contains both '=' and
\* '&'; a line that parses as an absolute URL is never returned as the code.
C7_RawCodeOnlyAsLastResort ==
    manual.ok /\ manual.code = Trim(input) =>
        /\ ~UrlParseOk(Trim(input))
        /\ ~(Contains(Trim(input), "=") /\ Contains(Trim(input), "&"))

\* the pairs that the precedence of the rules selects for a pasted line
ClaimedPairs(t) == IF UrlParseOk(t) THEN FormParse(UrlQuery(t)) ELSE FormParse(t)
ClaimedStructured(t) == UrlParseOk(t) \/ (Contains(t, "=") /\ Contains(t, "&"))

\* C8: for a pasted absolute URL or raw query string, a state parameter that
\* is present must equal expected_state or manual_oauth_input fails with a
\* state-mismatch error; with code present and state equal to expected_state
\* the result is (code, state); with code present and state absent it is
\* (code, expected_state).
C8_StateCheckedWhenPresent ==
    stdinReads = 1 /\ input # NoVal /\ ClaimedStructured(Trim(input)) =>
        LET ps == ClaimedPairs(Trim(input))
            c == LastOf(ps, <<"code">>)
            st == LastOf(ps, <<"state">>)
        IN  /\ (st # <<>> /\ st[1] # state =>
                   ~manual.ok /\ manual.err \in {"State mismatch in pasted URL",
                                                 "State mismatch in pasted parameters"})
            /\ (c # <<>> /\ st = <<state>> => manual = ManualOk(c[1], state))
            /\ (c # <<>> /\ st = <<>> => manual = ManualOk(c[1], state))

\* C9: when manual_oauth_input is needed and stdin is no terminal, the
\* attempt returns the no-interactive-input error, reads nothing and sends no
\* token request; a line that is empty after trimming returns the
\* no-code-provided error.
C9_NoInputNoCode ==
    /\ (manualCalls > 0 /\ ~stdinTerminal =>
           /\ pc = "done"
           /\ outcome = "No interactive input available"
           /\ stdinReads = 0 /\ input = NoVal
           /\ requests = 0)
    /\ (outcome = "No interactive input available" => manualCalls = 1 /\ ~stdinTerminal)
    /\ (stdinReads > 0 /\ input # NoVal /\ Trim(input) = <<>> =>
           /\ pc = "done"
           /\ outcome = "No code provided"
           /\ requests = 0)

\* the wait timed out, stdin is no terminal, and the attempt failed
C9_Witness ==
    /\ fn = "login" /\ result = "timeout"
    /\ outcome = "No interactive input available"
    /\ stdinReads = 0

\* C10: the attempt returns Ok only on a response whose body carries a string
\* access_token; a body that parses but has none returns the no-access-token
\* error although curl succeeded, whatever the HTTP status, and a body that
\* does not parse returns the parse error.
C10_OkOnlyWithAccessToken ==
    /\ (outcome = "Ok" /\ ~bypassed =>
           /\ requests = 1
           /\ response.curl = "exit_0"
           /\ response.body.kind = "object"
           /\ response.body.access_token = "string")
    /\ (requests > 0 /\ response.curl = "exit_0" =>
           /\ (response.body.kind # "non_json" /\ response.body.access_token = "absent" =>
                  outcome = "No access_token in token response")
           /\ (response.body.kind = "non_json" => outcome \notin {"Ok", "running"}))

\* curl succeeded with a 2xx response whose JSON body has no access_token
C10_Witness ==
    /\ response.curl = "exit_0" /\ response.http = "2xx"
    /\ response.body.kind = "object" /\ response.body.access_token = "absent"
    /\ outcome = "No access_token in token response"

\* C11: when the provider answers the token request with a non-success HTTP
\* status, the attempt returns the exchange-rejected error ("Token exchange
\* failed"), whatever the body: it returns neither Ok nor the
\* no-access-token error.
C11_RejectedOnHttpError ==
    requests > 0 /\ response.curl = "exit_0" /\ response.http = "4xx" =>
        /\ outcome = "Token exchange failed"
        /\ outcome # "Ok"
        /\ outcome # "No access_token in token response"

\* the values of the response's tokens
TokenValues == {"access_token value", "refresh_token value"}

\* C12: whatever the token response is (not JSON, JSON without a string
\* access_token, success), no diagnostic line that the attempt writes shows
\* the value of an access_token or refresh_token of the response body.
C12_NoTokenValueInDiagnostics ==
    \A w \in out : w.to \in {"stderr", "stdout"} => w.has \cap TokenValues = {}

\* C13: the PKCE verifier goes nowhere but into the token request: the
\* authorization URL, printed or opened, carries the challenge and not the
\* verifier, and neither a page of the callback handler nor a diagnostic
\* line contains it.
C13_VerifierOnlyInTokenRequest ==
    /\ \A w \in out :
          /\ "code_verifier" \in w.has => w.to = "curl" /\ w.what = "token_request"
          /\ w.what = "auth_url" => "code_challenge" \in w.has
    /\ \A h \in Handlers : handlers[h].page \in {"none", SuccessPage, InvalidPage}
    /\ requests > 0 => Wrote("curl", "token_request", TokenForm) \in out

\* the URL was printed and opened, a callback was answered, the token request
\* went out and its answer was logged
C13_Witness ==
    /\ requests = 1
    /\ Wrote("stdout", "auth_url", AuthUrlParams) \in out
    /\ Wrote("browser", "auth_url", AuthUrlParams) \in out
    /\ \E w \in out : w.what = "redacted_response"
    /\ \E h \in Handlers : handlers[h].page = SuccessPage

\* the order of the orchestrator's positions
PcRank ==
    [p \in {"entry", "env", "pkce", "addr", "channel", "bind", "print", "browser", "spawn",
            "await", "abort", "match", "manual", "read", "validate", "exchange", "done"} |->
        CASE p = "entry" -> 0 [] p = "env" -> 1 [] p = "pkce" -> 2 [] p = "addr" -> 3
          [] p = "channel" -> 4 [] p = "bind" -> 5 [] p = "print" -> 6 [] p = "browser" -> 7
          [] p = "spawn" -> 8 [] p = "await" -> 9 [] p = "abort" -> 10 [] p = "match" -> 11
          [] p = "manual" -> 12 [] p = "read" -> 13 [] p = "validate" -> 14
          [] p = "exchange" -> 15 [] p = "done" -> 16]

C14_Step ==
    /\ pc' # pc => PcRank[pc'] > PcRank[pc]
    /\ result # "pending" => result' = result
    /\ manualCalls' <= 1 /\ stdinReads' <= 1 /\ requests' <= 1
    /\ state # NoVal => state' = state
    /\ pc = "done" => UNCHANGED <<ovars, mvars, xvars, out>>

\* C14: an attempt never retries.  The orchestrator only moves forward, so
\* the wait on the listener is entered at most once and its result never
\* changes, manual_oauth_input is invoked at most once, at most one token
\* request is sent, the generated state (and the verifier generated with it)
\* is never replaced, and once the attempt has returned nothing of it moves.
C14_NoRetry == [][C14_Step]_vars

\* the wait timed out, the pasted code went to the provider and curl failed:
\* the attempt ended there
C14_Witness ==
    /\ pc = "done"
    /\ result = "timeout"
    /\ manualCalls = 1
    /\ requests = 1
    /\ outcome = "Token exchange failed"

\* C15: two attempts that run at the same time in one process do not
\* interfere: whatever the other attempt is doing, an attempt that comes to
\* bind its listener can bind it, as it could if it ran alone.
C15_BindIndependentOfPeer ==
    pc = "bind" => ENABLED (Bind /\ server' = "bound")

\* C16: with the bypass switch set, ensure_authenticated returns Ok at once:
\* no state or verifier is generated, no listener is bound, nothing is
\* printed or opened, manual_oauth_input is not invoked and no token request
\* is sent.  Without it, Ok is returned only after one token request whose
\* response carried a string access_token.
C16_BypassSkipsFlow ==
    /\ bypassed =>
          /\ pc = "done" /\ outcome = "Ok" /\ fn = "none"
          /\ state = NoVal /\ txSlot = "absent" /\ server = "none"
          /\ ~urlShown /\ ~browserTried /\ out = {}
          /\ manualCalls = 0 /\ stdinReads = 0 /\ requests = 0
          /\ \A h \in Handlers : handlers[h] = IdleHandler
    /\ ~bypassed /\ outcome = "Ok" =>
          /\ state # NoVal
          /\ requests = 1
          /\ Wrote("curl", "token_request", TokenForm) \in out
          /\ HasAccessToken(response.body)

C16_Witness == bypassed /\ outcome = "Ok" /\ pc = "done"

\* the stages of an attempt
Stage ==
    IF pc \in {"entry", "env", "pkce", "addr", "channel", "bind", "print", "browser", "spawn"}
    THEN "Init"
    ELSE IF pc \in {"await", "abort", "match"} THEN "AwaitingCallback"
    ELSE IF pc \in {"manual", "read"} THEN "ManualFallback"
    ELSE IF pc = "validate" THEN "Validating"
    ELSE IF pc = "exchange" THEN "Exchanging"
    ELSE IF outcome = "Ok" THEN "Succeeded" ELSE "Failed"

\* the transitions of the state machine; login_manual_only has no listener
\* and goes from Init to ManualFallback
StageSteps ==
    {<<"Init", "AwaitingCallback">>, <<"Init", "Failed">>, <<"Init", "Succeeded">>,
     <<"AwaitingCallback", "ManualFallback">>, <<"AwaitingCallback", "Validating">>,
     <<"ManualFallback", "Validating">>, <<"ManualFallback", "Failed">>,
     <<"Validating", "Exchanging">>, <<"Validating", "Failed">>,
     <<"Exchanging", "Succeeded">>, <<"Exchanging", "Failed">>}
    \cup (IF fn = "login_manual_only" THEN {<<"Init", "ManualFallback">>} ELSE {})

C17_Step ==
    /\ Stage' # Stage => <<Stage, Stage'>> \in StageSteps
    /\ Stage = "Init" /\ Stage' = "Succeeded" => bypassed'

\* C17: every attempt moves along Init, AwaitingCallback, ManualFallback
\* (optional), Validating, Exchanging and ends in Succeeded or Failed.  The
\* wait for the callback is always left, even when no callback or only
\* callbacks with another state arrive, given that the timer fires and that
\* the read of manual_oauth_input and curl return.
C17_Terminates ==
    /\ [][C17_Step]_vars
    /\ <>(Stage \in {"Succeeded", "Failed"})
    /\ (Stage = "AwaitingCallback" ~> Stage # "AwaitingCallback")

\* only a callback with another state arrived, the wait timed out and the
\* attempt ended after the manual capture
C17_Witness ==
    /\ Stage \in {"Succeeded", "Failed"}
    /\ result = "timeout"
    /\ manualCalls = 1
    /\ chan = <<>>
    /\ \E h \in Handlers : handlers[h].page = InvalidPage
    /\ \A h \in Handlers : handlers[h].page # SuccessPage

\* the failures of a state comparison
StateMismatches ==
    {"State mismatch in pasted URL", "State mismatch in pasted parameters",
     "State mismatch in OAuth callback"}

\* C18: whatever reaches the comparison of lines 154-156 / 282-284 has the
\* generated state already: the listener hands over pairs with that state
\* only, and manual_oauth_input returns Ok only with expected_state.  So the comparison never fails, and every state-mismatch
\* failure of an attempt is an error of manual_oauth_input.
C18_ValidatingNeverFails ==
    /\ \A i \in 1 .. Len(chan) : chan[i][2] = state
    /\ manual.ok => manual.st = state
    /\ pc \in {"validate", "exchange"} => returned_state = state
    /\ outcome # "State mismatch in OAuth callback"
    /\ outcome \in StateMismatches =>
          /\ manualCalls = 1 /\ stdinReads = 1
          /\ ~manual.ok /\ manual.err = outcome
          /\ LastOf(FormParse(IF UrlParseOk(Trim(input)) THEN UrlQuery(Trim(input))
                                                          ELSE Trim(input)),
                    <<"state">>) \notin {<<>>, <<state>>}

\* a callback with another state was turned away by the listener, and the
\* URL pasted after the timeout carried another state too
C18_Witness ==
    /\ outcome = "State mismatch in pasted URL"
    /\ pc = "done"
    /\ result = "timeout"
    /\ \E h \in Handlers : Mismatched(h) /\ handlers[h].page = InvalidPage

\* C19: the page of the handler follows the comparison of the states alone:
\* a callback with the expected state gets the success page, also when an
\* earlier callback had taken the Sender or when the orchestrator had stopped
\* waiting and the send failed; any other callback gets the invalid-state
\* page.  A success page does not say that the callback's code is exchanged.
C19_PageFollowsStateOnly ==
    \A h \in Handlers :
        handlers[h].pc = "done" =>
            /\ handlers[h].page = SuccessPage <=> handlers[h].st = state
            /\ handlers[h].page = InvalidPage <=> handlers[h].st # state

\* two callbacks with the expected state after the timeout: one took the
\* Sender and its send failed, the other found the Sender gone; both got the
\* success page, and the attempt succeeded with a pasted code that is the
\* code of neither
C19_Witness ==
    \E h1, h2 \in Handlers :
        /\ handlers[h1].pc = "done" /\ handlers[h1].page = SuccessPage /\ handlers[h1].took
        /\ handlers[h2].pc = "done" /\ handlers[h2].page = SuccessPage /\ ~handlers[h2].took
        /\ chan = <<>>
        /\ outcome = "Ok"
        /\ code \notin {handlers[h1].code, handlers[h2].code}

BrowserError == Wrote("stderr", "browser_error", {})

\* C20: login prints the authorization URL and opens the browser only after
\* the listener is bound; when the bind fails the URL is neither printed nor
\* opened; and when the browser cannot be opened the attempt goes on to wait
\* for the callback.
C20_UrlAfterBind ==
    /\ fn = "login" /\ (urlShown \/ browserTried \/ out # {}) => server # "none"
    /\ outcome = "bind failed" => ~urlShown /\ ~browserTried /\ out = {}
    /\ BrowserError \in out =>
          /\ fn = "login"
          /\ pc = "spawn" \/ result # "pending" \/ pc = "await"
          /\ outcome # "Could not open browser"

\* the browser could not be opened and login waits for the callback
C20_Witness ==
    /\ BrowserError \in out
    /\ pc = "await"
    /\ server = "running"
    /\ outcome = "running"

====
